---- MODULE Spec2Model ----
(***************************************************************************)
(* Model of the BudouX parser of src/src/parser.rs: Parser::new,           *)
(* Parser::parse, Parser::parse_boundaries, Parser::get_score and the      *)
(* Substring helper.                                                       *)
(*                                                                         *)
(* A str is modelled as what it is in Rust: its sequence of UTF-8 bytes.   *)
(* Character indices are recovered from the bytes the way char_indices()   *)
(* does.  i64 is modelled as a two's complement integer of IntBits bits;   *)
(* an overflowing +, sum() or unary - panics when the build has overflow   *)
(* checks (debug profile) and wraps when it has not (release profile).     *)
(***************************************************************************)
EXTENDS Integers, Sequences, FiniteSets, TLC

VARIABLES overflow_checks, parsers, result, sub

vars == <<overflow_checks, parsers, result, sub>>

(***************************************************************************)
(* Bounds of the model.                                                    *)
(***************************************************************************)
\* Longest sentence, in characters.
MaxLen == 4
\* Width of the modelled i64 (64 in the program).
IntBits == 16
\* Most entries of a weight table drawn from EntryPool.
MaxEntries == 3

(***************************************************************************)
(* i64 arithmetic.                                                         *)
(***************************************************************************)
RECURSIVE Pow2(_)
Pow2(n) == IF n = 0 THEN 1 ELSE 2 * Pow2(n - 1)

MaxInt == Pow2(IntBits - 1) - 1
MinInt == -Pow2(IntBits - 1)

InRange(x) == MinInt <= x /\ x <= MaxInt

\* Two's complement wrap-around of a mathematical integer.
Wrap(x) == ((x - MinInt) % Pow2(IntBits)) + MinInt

\* A computed i64: ok = FALSE is a panic, ovf records that some step left
\* the i64 range (and wrapped, when ok).
Val(v) == [ok |-> TRUE, ovf |-> FALSE, val |-> v]
Panic == [ok |-> FALSE, ovf |-> TRUE, val |-> 0]

\* The bug of clamping the sum at the ends of the range.
AddSaturating(acc, w, checks) ==
    IF ~acc.ok THEN acc
    ELSE [ok |-> TRUE, ovf |-> acc.ovf \/ ~InRange(acc.val + w),
          val |-> IF acc.val + w > MaxInt THEN MaxInt
                  ELSE IF acc.val + w < MinInt THEN MinInt ELSE acc.val + w]

\* acc + w on i64, after the steps that produced acc.
Add(acc, w, checks) ==
    IF ~acc.ok THEN acc
    ELSE IF InRange(acc.val + w) THEN [acc EXCEPT !.val = acc.val + w]
    ELSE IF checks THEN Panic
    ELSE [ok |-> TRUE, ovf |-> TRUE, val |-> Wrap(acc.val + w)]

\* -x on i64.
Neg(acc, checks) ==
    IF ~acc.ok THEN acc
    ELSE IF InRange(-acc.val) THEN [acc EXCEPT !.val = -acc.val]
    ELSE IF checks THEN Panic
    ELSE [ok |-> TRUE, ovf |-> TRUE, val |-> Wrap(-acc.val)]

\* Flooring division, the bug of taking / for a floor.
DivFloor(x, d) == x \div d

\* x / d on i64, d > 0: the quotient is truncated toward zero.
Div(x, d) == IF x >= 0 THEN x \div d ELSE -((-x) \div d)

\* usize::saturating_sub and usize::saturating_add.  An index is below the
\* length of a str, which is at most isize::MAX, so i + k never reaches
\* usize::MAX for k <= 3 and the addition never saturates.
SaturatingSub(i, k) == IF i >= k THEN i - k ELSE 0
SaturatingAdd(i, k) == i + k

(***************************************************************************)
(* UTF-8.                                                                  *)
(***************************************************************************)
\* 'a' and HIRAGANA LETTER A (U+3042, three bytes in UTF-8).
Alphabet == {97, 12354}

\* The UTF-8 bytes of one code point.
EncodeChar(c) ==
    IF c < 128 THEN <<c>>
    ELSE IF c < 2048 THEN <<192 + (c \div 64), 128 + (c % 64)>>
    ELSE IF c < 65536 THEN
        <<224 + (c \div 4096), 128 + ((c \div 64) % 64), 128 + (c % 64)>>
    ELSE <<240 + (c \div 262144), 128 + ((c \div 4096) % 64),
           128 + ((c \div 64) % 64), 128 + (c % 64)>>

\* The str holding the characters cs.
RECURSIVE Encode(_)
Encode(cs) == IF cs = <<>> THEN <<>> ELSE EncodeChar(Head(cs)) \o Encode(Tail(cs))

\* Width of the character a leading byte starts.
LeadWidth(b) == IF b < 128 THEN 1 ELSE IF b < 224 THEN 2 ELSE IF b < 240 THEN 3 ELSE 4

\* str::char_indices, keeping the byte offsets (0-based) of the characters.
RECURSIVE CharIndicesFrom(_, _)
CharIndicesFrom(s, k) ==
    IF k > Len(s) THEN <<>>
    ELSE <<k - 1>> \o CharIndicesFrom(s, k + LeadWidth(s[k]))

CharIndices(s) == CharIndicesFrom(s, 1)

\* sentence.chars().collect().len()
CharLen(s) == Len(CharIndices(s))

(***************************************************************************)
(* Substring::substring.  ok = FALSE is the panic of &self[a..b], a > b.   *)
(***************************************************************************)
\* char_indices.get(k).map(|(byte, _)| *byte).unwrap_or(self.len())
ByteAt(s, char_indices, k) ==
    IF k < Len(char_indices) THEN char_indices[k + 1] ELSE Len(s)

\* &self[start_byte..end_byte]
SliceBytes(s, start_byte, end_byte) ==
    IF start_byte > end_byte THEN [ok |-> FALSE, val |-> <<>>]
    ELSE [ok |-> TRUE, val |-> SubSeq(s, start_byte + 1, end_byte)]

SubstringOf(s, char_indices, start, end) ==
    SliceBytes(s, ByteAt(s, char_indices, start), ByteAt(s, char_indices, end))

\* The bug of an inclusive end index.
Substring_EndInclusive(s, start, end) == SubstringOf(s, CharIndices(s), start, end + 1)

Substring(s, start, end) == SubstringOf(s, CharIndices(s), start, end)

(***************************************************************************)
(* The weight table: Model = HashMap<String, HashMap<String, i64>>, a      *)
(* function from group keys to functions from n-grams (strs) to weights.   *)
(***************************************************************************)
EmptyModel == [g \in {} |-> <<>>]

\* The table holding the entries E, a set of <<group, n-gram, weight>> with
\* distinct <<group, n-gram>>.
ModelOf(E) ==
    [g \in {e[1] : e \in E} |->
        [k \in {e[2] : e \in {x \in E : x[1] = g}} |->
            (CHOOSE e \in E : e[1] = g /\ e[2] = k)[3]]]

\* The <<group, n-gram>> pairs of a table.
EntriesOf(model) == UNION {{<<g, k>> : k \in DOMAIN model[g]} : g \in DOMAIN model}

\* model.values().flat_map(|group| group.values()): the weights in the
\* order the two levels of hash maps iterate, which is any order of the
\* groups and, inside each group, any order of its entries.
IterationOrders(model) ==
    LET E == EntriesOf(model)
        n == Cardinality(E)
    IN  {[j \in 1..n |-> model[f[j][1]][f[j][2]]] :
            f \in {h \in [1..n -> E] :
                     /\ \A a, b \in 1..n : a # b => h[a] # h[b]
                     /\ \A a, b, c \in 1..n :
                          (a < b /\ b < c /\ h[a][1] = h[c][1]) => h[b][1] = h[a][1]}}

\* Iterator::sum::<i64>(): a fold of + from 0.
RECURSIVE SumFrom(_, _, _)
SumFrom(ws, acc, checks) ==
    IF ws = <<>> THEN acc ELSE SumFrom(Tail(ws), Add(acc, Head(ws), checks), checks)

Sum(ws, checks) == SumFrom(ws, Val(0), checks)

\* (s + 1) / 2, after the steps that produced s + 1.
Halve(acc) == IF acc.ok THEN [acc EXCEPT !.val = Div(acc.val, 2)] ELSE acc

\* -((s + 1) / 2)
BaseScore(s, checks) == Neg(Halve(Add(s, 1, checks)), checks)

NoParser == [state |-> "none", model |-> EmptyModel, base_score |-> 0, ovf |-> FALSE]

\* Parser { model, base_score }, unless computing base_score panicked.
Built(model, b) ==
    IF b.ok
    THEN [state |-> "ready", model |-> model, base_score |-> b.val, ovf |-> b.ovf]
    ELSE [state |-> "panicked", model |-> EmptyModel, base_score |-> 0, ovf |-> TRUE]

\* Parser::new, the weights iterated in the order ws.
New(model, ws, checks) == Built(model, BaseScore(Sum(ws, checks), checks))

\* Parser::get_score
GetScore(model, key, value) ==
    IF key \in DOMAIN model /\ value \in DOMAIN model[key] THEN model[key][value] ELSE 0

(***************************************************************************)
(* Parser::parse_boundaries.                                               *)
(***************************************************************************)
\* The bug of a window copied from the line below it: UW2 reads UW3's.
Features_Copied ==
    << <<"UW1", -3, -2>>, <<"UW2", -1, 0>>,  <<"UW3", -1, 0>>,
       <<"UW4", 0, 1>>,   <<"UW5", 1, 2>>,   <<"UW6", 2, 3>>,
       <<"BW1", -2, 0>>,  <<"BW2", -1, 1>>,  <<"BW3", 0, 2>>,
       <<"TW1", -3, 0>>,  <<"TW2", -2, 1>>,  <<"TW3", -1, 2>>,
       <<"TW4", 0, 3>> >>

\* The thirteen features in the order they are added: the group and the
\* offsets of the window's start and end from the position i.
Features ==
    << <<"UW1", -3, -2>>, <<"UW2", -2, -1>>, <<"UW3", -1, 0>>,
       <<"UW4", 0, 1>>,   <<"UW5", 1, 2>>,   <<"UW6", 2, 3>>,
       <<"BW1", -2, 0>>,  <<"BW2", -1, 1>>,  <<"BW3", 0, 2>>,
       <<"TW1", -3, 0>>,  <<"TW2", -2, 1>>,  <<"TW3", -1, 2>>,
       <<"TW4", 0, 3>> >>

\* i.saturating_sub(k), i, or i.saturating_add(k)
Offset(i, d) ==
    IF d < 0 THEN SaturatingSub(i, -d) ELSE IF d > 0 THEN SaturatingAdd(i, d) ELSE i

\* The bug of dropping a window that an end of the sentence cuts.
Window_Strict(s, i, f) ==
    IF i + f[2] < 0 \/ i + f[3] > CharLen(s) THEN [ok |-> TRUE, val |-> <<>>]
    ELSE Substring(s, Offset(i, f[2]), Offset(i, f[3]))

\* The n-gram feature f is looked up with at position i.
Window(s, i, f) == Substring(s, Offset(i, f[2]), Offset(i, f[3]))

\* self.get_score(key, sentence.substring(..)), and whether taking the
\* window succeeded.
Lookup(model, key, w) == [ok |-> w.ok, weight |-> GetScore(model, key, w.val)]

\* The thirteen lookups at position i, in order.
Lookups(model, s, i) ==
    [k \in 1..Len(Features) |-> Lookup(model, Features[k][1], Window(s, i, Features[k]))]

\* score += self.get_score(...), thirteen times.
RECURSIVE Accumulate(_, _, _, _)
Accumulate(ls, k, acc, checks) ==
    IF k > Len(ls) THEN acc
    ELSE IF ~ls[k].ok THEN Panic
    ELSE Accumulate(ls, k + 1, Add(acc, ls[k].weight, checks), checks)

\* let mut score = self.base_score; and the thirteen additions.
Score(base_score, ls, checks) == Accumulate(ls, 1, Val(base_score), checks)

\* The bug of scanning from the first character.
Positions_FromZero(n) == [k \in 1..n |-> k - 1]

\* for i in 1..chars.len()
Positions(n) == [k \in 1..(n - 1) |-> k]

NoBoundaries == [ok |-> TRUE, ovf |-> FALSE, boundaries |-> <<>>, contrib |-> <<>>]
PanickedBoundaries == [ok |-> FALSE, ovf |-> TRUE, boundaries |-> <<>>, contrib |-> <<>>]

\* if score > 0 { result.push(i) }; contrib keeps the weights looked up.
Push(out, i, ls, score) ==
    IF ~score.ok THEN PanickedBoundaries
    ELSE [ok |-> TRUE,
          ovf |-> out.ovf \/ score.ovf,
          boundaries |-> IF score.val > 0 THEN Append(out.boundaries, i) ELSE out.boundaries,
          contrib |-> Append(out.contrib, [k \in 1..Len(ls) |-> ls[k].weight])]

\* The body of the loop at position i.
Visit(base_score, out, i, ls, checks) == Push(out, i, ls, Score(base_score, ls, checks))

RECURSIVE ScanFrom(_, _, _, _, _, _)
ScanFrom(model, base_score, s, is, out, checks) ==
    IF is = <<>> \/ ~out.ok THEN out
    ELSE ScanFrom(model, base_score, s, Tail(is),
                  Visit(base_score, out, Head(is), Lookups(model, s, Head(is)), checks),
                  checks)

ParseBoundaries(model, base_score, s, checks) ==
    ScanFrom(model, base_score, s, Positions(CharLen(s)), NoBoundaries, checks)

(***************************************************************************)
(* Parser::parse.                                                          *)
(***************************************************************************)
\* The bug of never moving start.
NextStart_Stale(start, boundary) == start

\* start = boundary
NextStart(start, boundary) == boundary

\* The loop over the boundaries and the last push; sentence.len() is the
\* length in bytes.
RECURSIVE Slice(_, _, _, _)
Slice(s, bs, start, acc) ==
    IF bs = <<>> THEN Append(acc, Substring(s, start, Len(s)))
    ELSE Slice(s, Tail(bs), NextStart(start, Head(bs)), Append(acc, Substring(s, start, Head(bs))))

NoChunks ==
    [ok |-> TRUE, ovf |-> FALSE, boundaries |-> <<>>, contrib |-> <<>>, chunks |-> <<>>]
PanickedChunks ==
    [ok |-> FALSE, ovf |-> TRUE, boundaries |-> <<>>, contrib |-> <<>>, chunks |-> <<>>]

\* The result of parse, unless taking a chunk panicked.
Chunked(b, cs) ==
    IF \A k \in 1..Len(cs) : cs[k].ok
    THEN [ok |-> TRUE, ovf |-> b.ovf, boundaries |-> b.boundaries, contrib |-> b.contrib,
          chunks |-> [k \in 1..Len(cs) |-> cs[k].val]]
    ELSE PanickedChunks

\* The sentence sliced at the boundaries b, unless computing them panicked.
Sliced(s, b) == IF b.ok THEN Chunked(b, Slice(s, b.boundaries, 0, <<>>)) ELSE PanickedChunks

Parse(model, base_score, s, checks) ==
    IF s = <<>> THEN NoChunks
    ELSE Sliced(s, ParseBoundaries(model, base_score, s, checks))

(***************************************************************************)
(* The inputs: sentences and weight tables.                                *)
(***************************************************************************)
CharSeqs(n) == UNION {[1..k -> Alphabet] : k \in 0..n}

\* TEST_SENTENCE of the unit tests, "abcdeabcd".
TEST_SENTENCE == Encode(<<97, 98, 99, 100, 101, 97, 98, 99, 100>>)

\* The sentences of the tests and of the documentation's examples, with 'b'
\* as a second character.
ScenarioSentences ==
    {TEST_SENTENCE} \cup {Encode(cs) : cs \in UNION {[1..k -> {97, 98}] : k \in 1..2}}

Sentences == {Encode(cs) : cs \in CharSeqs(MaxLen)} \cup ScenarioSentences

\* The n-grams of at most n characters, the empty string among them: no key
\* of a table is validated.
NGrams(n) == {Encode(cs) : cs \in CharSeqs(n)}

\* Tables of one entry, for every feature and every n-gram its window can
\* hold, of a weight that sets a negative or a positive base score.
FeatureWeights == {-2, 3}
FeatureTables ==
    UNION {{ModelOf({<<Features[f][1], k, w>>}) :
                k \in NGrams(Features[f][3] - Features[f][2]), w \in FeatureWeights} :
           f \in 1..Len(Features)}

\* Tables of one entry UW4["a"], of every sign, parity and extreme.
ArithWeights == {MinInt, MinInt + 1, -3, -1, 1, 2, MaxInt - 1, MaxInt}
ArithTables == {ModelOf({<<"UW4", <<97>>, w>>}) : w \in ArithWeights}

\* Tables of several entries; "XX" is a group no feature queries, and its
\* key is longer than any window.
EntryPool ==
    { <<"UW4", <<97>>, MaxInt>>,
      <<"UW3", <<97>>, MinInt>>,
      <<"UW3", Encode(<<12354>>), 1>>,
      <<"BW2", Encode(<<97, 12354>>), -3>>,
      <<"TW1", <<>>, 3>>,
      <<"XX", <<97, 97, 97, 97>>, -2>> }
MixedTables == {ModelOf(E) : E \in {F \in SUBSET EntryPool : Cardinality(F) \in 2..MaxEntries}}

\* The tables of the unit tests and of the documentation's examples.
ScenarioWeights == {10, 10000}
ScenarioTables ==
    {ModelOf({<<g, <<c>>, w>>}) : g \in {"UW4", "BW1"}, c \in {97, 98}, w \in ScenarioWeights}

Tables ==
    {EmptyModel} \cup FeatureTables \cup ArithTables \cup MixedTables \cup ScenarioTables

\* The inputs of the run with two parsers.
PairSentences == {Encode(cs) : cs \in CharSeqs(MaxLen - 2)}
PairTables ==
    { EmptyModel,
      ModelOf({<<"UW4", <<97>>, 3>>}),
      ModelOf({<<"UW3", Encode(<<12354>>), -2>>}),
      ModelOf({<<"UW4", <<97>>, MaxInt>>, <<"UW3", Encode(<<12354>>), 1>>,
               <<"XX", <<97, 97, 97, 97>>, -2>>}),
      ModelOf({<<"UW4", <<97>>, MaxInt>>, <<"TW1", <<>>, 3>>,
               <<"BW2", Encode(<<97, 12354>>), -3>>}) }

ParserIds == {1, 2}

(***************************************************************************)
(* The state: the build profile, the parsers, the value each parser's      *)
(* caller holds from its last call, and the last direct use of substring.  *)
(***************************************************************************)
NoResult ==
    [op |-> "none", sentence |-> <<>>, ok |-> TRUE, ovf |-> FALSE,
     boundaries |-> <<>>, contrib |-> <<>>, chunks |-> <<>>]

NoSub == [called |-> FALSE, s |-> <<>>, start |-> 0, end |-> 0, ok |-> TRUE, val |-> <<>>]

\* What the caller holds after parse_boundaries(s), parse(s) and
\* s.substring(start, end) returned r.
HeldBoundaries(s, r) ==
    [op |-> "parse_boundaries", sentence |-> s, ok |-> r.ok, ovf |-> r.ovf,
     boundaries |-> r.boundaries, contrib |-> r.contrib, chunks |-> <<>>]

HeldChunks(s, r) ==
    [op |-> "parse", sentence |-> s, ok |-> r.ok, ovf |-> r.ovf,
     boundaries |-> r.boundaries, contrib |-> r.contrib, chunks |-> r.chunks]

HeldSlice(s, start, end, r) ==
    [called |-> TRUE, s |-> s, start |-> start, end |-> end, ok |-> r.ok, val |-> r.val]

Init ==
    /\ overflow_checks \in BOOLEAN
    /\ parsers = [p \in ParserIds |-> NoParser]
    /\ result = [p \in ParserIds |-> NoResult]
    /\ sub = NoSub

\* Parser::new(model), for a table of T
Construct(p, T) ==
    /\ parsers[p].state = "none"
    /\ \E model \in T : \E ws \in IterationOrders(model) :
          parsers' = [parsers EXCEPT ![p] = New(model, ws, overflow_checks)]
    /\ UNCHANGED <<overflow_checks, result, sub>>

\* parser.parse_boundaries(s), for a sentence of S
CallParseBoundaries(p, S) ==
    /\ parsers[p].state = "ready"
    /\ result[p].op = "none"
    /\ \E s \in S :
        result' = [result EXCEPT ![p] =
            HeldBoundaries(s, ParseBoundaries(parsers[p].model, parsers[p].base_score, s,
                                              overflow_checks))]
    /\ UNCHANGED <<overflow_checks, parsers, sub>>

\* parser.parse(s), for a sentence of S
CallParse(p, S) ==
    /\ parsers[p].state = "ready"
    /\ result[p].op = "none"
    /\ \E s \in S :
        result' = [result EXCEPT ![p] =
            HeldChunks(s, Parse(parsers[p].model, parsers[p].base_score, s, overflow_checks))]
    /\ UNCHANGED <<overflow_checks, parsers, sub>>

\* The caller drops what the call returned (or the panic is over).
Return(p) ==
    /\ result[p].op # "none"
    /\ result' = [result EXCEPT ![p] = NoResult]
    /\ UNCHANGED <<overflow_checks, parsers, sub>>

\* s.substring(start, end), used directly.
CallSubstring(S, I) ==
    /\ ~sub.called
    /\ \E s \in S : \E start, end \in I :
        sub' = HeldSlice(s, start, end, Substring(s, start, end))
    /\ UNCHANGED <<overflow_checks, parsers, result>>

\* The caller drops the slice (or the panic is over).
ReturnSubstring ==
    /\ sub.called
    /\ sub' = NoSub
    /\ UNCHANGED <<overflow_checks, parsers, result>>

\* One parser, every table and sentence.
Next ==
    \/ Construct(1, Tables)
    \/ CallParseBoundaries(1, Sentences)
    \/ CallParse(1, Sentences)
    \/ Return(1)

Spec == Init /\ [][Next]_vars

\* Two parsers, used in any interleaving.
NextPair ==
    \E p \in ParserIds :
        \/ Construct(p, PairTables)
        \/ CallParseBoundaries(p, PairSentences)
        \/ CallParse(p, PairSentences)
        \/ Return(p)

SpecPair == Init /\ [][NextPair]_vars

\* The substring helper on every sentence and pair of indices.
NextSubstring ==
    \/ CallSubstring(Sentences, 0..(MaxLen + 2))
    \/ ReturnSubstring

SpecSubstring == Init /\ [][NextSubstring]_vars

(***************************************************************************)
(* Vocabulary of the properties: characters, read off the UTF-8 bytes      *)
(* through the continuation bytes, and the windows of the documentation.   *)
(***************************************************************************)
IsContinuation(b) == b \in 128..191

\* The number of characters of the str s.
NumChars(s) == Cardinality({k \in 1..Len(s) : ~IsContinuation(s[k])})

\* The byte offset at which character j (from 0) of s starts; the length
\* of s for j at or past the end.
CharStart(s, j) ==
    IF j >= NumChars(s) THEN Len(s)
    ELSE CHOOSE o \in 0..(Len(s) - 1) :
            /\ ~IsContinuation(s[o + 1])
            /\ Cardinality({k \in 1..o : ~IsContinuation(s[k])}) = j

\* The characters of s with an index in [a, b).
CharsIn(s, a, b) == IF a >= b THEN <<>> ELSE SubSeq(s, CharStart(s, a) + 1, CharStart(s, b))

HasMultiByte(s) == Len(s) > NumChars(s)

RECURSIVE Concat(_)
Concat(ss) == IF ss = <<>> THEN <<>> ELSE Head(ss) \o Concat(Tail(ss))

RECURSIVE SumOfEntries(_, _)
SumOfEntries(model, E) ==
    IF E = {} THEN 0
    ELSE LET e == CHOOSE x \in E : TRUE
         IN  model[e[1]][e[2]] + SumOfEntries(model, E \ {e})

\* The sum of every weight of a table, as a mathematical integer.
TotalWeight(model) == SumOfEntries(model, EntriesOf(model))

\* W(group, text) of the documentation.
W(model, group, text) ==
    IF group \in DOMAIN model /\ text \in DOMAIN model[group] THEN model[group][text] ELSE 0

\* The windows of the documentation's formula: substr[i + lo, i + hi).
DocWindows ==
    << <<"UW1", -3, -2>>, <<"UW2", -2, -1>>, <<"UW3", -1, 0>>,
       <<"UW4", 0, 1>>,   <<"UW5", 1, 2>>,   <<"UW6", 2, 3>>,
       <<"BW1", -2, 0>>,  <<"BW2", -1, 1>>,  <<"BW3", 0, 2>>,
       <<"TW1", -3, 0>>,  <<"TW2", -2, 1>>,  <<"TW3", -1, 2>>,
       <<"TW4", 0, 3>> >>

Max(a, b) == IF a >= b THEN a ELSE b
Min(a, b) == IF a <= b THEN a ELSE b

\* The window of feature k at position i of s, clamped to the sentence.
ClampedLo(s, i, k) == Max(i + DocWindows[k][2], 0)
ClampedHi(s, i, k) == Min(i + DocWindows[k][3], NumChars(s))
EmptyWindow(s, i, k) == ClampedLo(s, i, k) >= ClampedHi(s, i, k)
CutWindow(s, i, k) == i + DocWindows[k][2] < 0 \/ i + DocWindows[k][3] > NumChars(s)

\* Parser p's caller holds what op returned.
Returned(p, op) == result[p].op = op /\ result[p].ok
ReturnedAny(p) == result[p].op # "none" /\ result[p].ok

(***************************************************************************)
(* Properties.                                                             *)
(***************************************************************************)

\* C1: the chunks parse returns, concatenated in order, are the sentence,
\* byte for byte, and no chunk starts inside a multi-byte character.
C1_LosslessSplit ==
    \A p \in ParserIds :
        Returned(p, "parse") =>
            /\ Concat(result[p].chunks) = result[p].sentence
            /\ \A k \in 1..Len(result[p].chunks) :
                  result[p].chunks[k] # <<>> => ~IsContinuation(result[p].chunks[k][1])

C1_Witness ==
    \E p \in ParserIds :
        /\ Returned(p, "parse")
        /\ Len(result[p].chunks) >= 2
        /\ HasMultiByte(result[p].sentence)

\* C2: parse_boundaries returns character indices that increase strictly and
\* lie strictly between 0 and the number of characters; none for a sentence
\* of fewer than two characters.
C2_BoundariesInterior ==
    \A p \in ParserIds :
        Returned(p, "parse_boundaries") =>
            LET b == result[p].boundaries
                n == NumChars(result[p].sentence)
            IN  /\ \A k \in 1..Len(b) : 0 < b[k] /\ b[k] < n
                /\ \A k \in 1..(Len(b) - 1) : b[k] < b[k + 1]
                /\ n < 2 => b = <<>>

C2_Witness ==
    \E p \in ParserIds :
        /\ Returned(p, "parse_boundaries")
        /\ Len(result[p].boundaries) >= 2
        /\ HasMultiByte(result[p].sentence)

\* C3: parse returns no chunk for the empty sentence; otherwise it returns
\* one chunk more than there are boundaries, chunk k holding the characters
\* from boundary k - 1 (0 for the first) to boundary k (the number of
\* characters for the last), and no chunk is empty.
C3_ChunksAreTheSlices ==
    \A p \in ParserIds :
        Returned(p, "parse") =>
            LET s == result[p].sentence
                b == result[p].boundaries
                c == result[p].chunks
                from(k) == IF k = 1 THEN 0 ELSE b[k - 1]
                to(k) == IF k = Len(b) + 1 THEN NumChars(s) ELSE b[k]
            IN  IF s = <<>> THEN c = <<>>
                ELSE /\ Len(c) = Len(b) + 1
                     /\ \A k \in 1..Len(c) : c[k] = CharsIn(s, from(k), to(k)) /\ c[k] # <<>>

C3_Witness ==
    \E p \in ParserIds :
        /\ Returned(p, "parse")
        /\ Len(result[p].chunks) >= 3
        /\ HasMultiByte(result[p].sentence)

\* ceil(S / 2) of an integer S.
CeilHalf(S) == (S + 1) \div 2

\* x / 2 with the quotient truncated toward zero.
TruncHalf(x) == IF x >= 0 THEN x \div 2 ELSE -((-x) \div 2)

\* C4, as stated: base_score is -ceil(S / 2), S the sum of the weights; here
\* only where no step of the computation left the i64 range.
C4_NegatedCeiling ==
    \A p \in ParserIds :
        (parsers[p].state = "ready" /\ ~parsers[p].ovf) =>
            parsers[p].base_score = -CeilHalf(TotalWeight(parsers[p].model))

\* C4, amended: base_score is -((S + 1) / 2) with S the i64 sum of the
\* weights, S + 1 an i64 and the quotient truncated toward zero.  Where S + 1
\* does not overflow this is -ceil(S / 2) for S >= -1 and for odd S, and
\* -ceil(S / 2) - 1 for negative even S; it is 0 for the empty table.
C4_TruncatedHalf ==
    \A p \in ParserIds :
        parsers[p].state = "ready" =>
            LET S == Wrap(TotalWeight(parsers[p].model))
            IN  /\ parsers[p].base_score = -TruncHalf(Wrap(S + 1))
                /\ S < MaxInt =>
                      parsers[p].base_score =
                          IF S < 0 /\ S % 2 = 0 THEN -CeilHalf(S) - 1 ELSE -CeilHalf(S)
                /\ parsers[p].model = EmptyModel => parsers[p].base_score = 0

C4_Witness ==
    \E p \in ParserIds :
        /\ parsers[p].state = "ready"
        /\ TotalWeight(parsers[p].model) = -2
        /\ parsers[p].base_score = 0

\* C5: Parser::new, parse_boundaries and parse never panic, and no sum, s + 1
\* or running score leaves the i64 range.
C5_NoOverflow ==
    \A p \in ParserIds :
        /\ parsers[p].state # "panicked"
        /\ ~parsers[p].ovf
        /\ result[p].ok
        /\ ~result[p].ovf

\* Parsers built from equal tables have equal base scores and hold equal
\* results for the same call, whatever was called before on either.
C6_SameTableSameResults ==
    \A p, q \in ParserIds :
        (parsers[p].state = "ready" /\ parsers[q].state = "ready"
            /\ parsers[p].model = parsers[q].model) =>
            /\ parsers[p].base_score = parsers[q].base_score
            /\ (result[p].op # "none" /\ result[p].op = result[q].op
                    /\ result[p].sentence = result[q].sentence) => result[p] = result[q]

\* No call changes a parser.
C6_CallsLeaveParser ==
    \A p \in ParserIds : parsers[p].state = "ready" => parsers'[p] = parsers[p]

\* C6: determinism and history independence, the two formulas above: equal
\* tables give equal base scores and equal results in every reachable state,
\* and no step taken on a built parser changes its table or base score.
C6_Determinism == [](C6_SameTableSameResults) /\ [][C6_CallsLeaveParser]_vars

C6_Witness ==
    /\ parsers[1].state = "ready" /\ parsers[2].state = "ready"
    /\ parsers[1].model = parsers[2].model
    /\ Cardinality(EntriesOf(parsers[1].model)) >= 2
    /\ Returned(1, "parse") /\ Returned(2, "parse")
    /\ result[1].sentence = result[2].sentence
    /\ Len(result[1].chunks) >= 2

\* The table holds the single entry UW4[c] = w, c one character.
SingleUW4(model) ==
    /\ DOMAIN model = {"UW4"}
    /\ Cardinality(DOMAIN model["UW4"]) = 1
    /\ \A k \in DOMAIN model["UW4"] : NumChars(k) = 1

\* The boundaries b are the interior positions of s that hold the character
\* of the single entry of the table.
AtEachOccurrence(model, s, b) ==
    /\ \A k \in 1..(Len(b) - 1) : b[k] < b[k + 1]
    /\ {b[k] : k \in 1..Len(b)} =
          {i \in 1..(NumChars(s) - 1) : CharsIn(s, i, i + 1) \in DOMAIN model["UW4"]}

\* C7: with the single entry UW4[c] = w, w >= 2, the boundaries are exactly
\* the interior positions that hold c.
C7_StrongFeature ==
    \A p \in ParserIds :
        (ReturnedAny(p) /\ SingleUW4(parsers[p].model)
            /\ \A k \in DOMAIN parsers[p].model["UW4"] : parsers[p].model["UW4"][k] >= 2) =>
            AtEachOccurrence(parsers[p].model, result[p].sentence, result[p].boundaries)

\* The same for the weights below the largest i64, which the code satisfies.
StrongFeatureBelowMax ==
    \A p \in ParserIds :
        (ReturnedAny(p) /\ SingleUW4(parsers[p].model)
            /\ \A k \in DOMAIN parsers[p].model["UW4"] :
                  parsers[p].model["UW4"][k] >= 2 /\ parsers[p].model["UW4"][k] < MaxInt) =>
            AtEachOccurrence(parsers[p].model, result[p].sentence, result[p].boundaries)

\* The two unit tests on TEST_SENTENCE.
UnitTests ==
    \A p \in ParserIds :
        (Returned(p, "parse") /\ result[p].sentence = TEST_SENTENCE) =>
            /\ parsers[p].model = ModelOf({<<"UW4", <<97>>, 10000>>}) =>
                  /\ result[p].boundaries = <<5>>
                  /\ result[p].chunks = <<Encode(<<97, 98, 99, 100, 101>>),
                                          Encode(<<97, 98, 99, 100>>)>>
            /\ parsers[p].model = ModelOf({<<"UW4", <<98>>, 10000>>}) =>
                  result[p].chunks = <<Encode(<<97>>), Encode(<<98, 99, 100, 101, 97>>),
                                       Encode(<<98, 99, 100>>)>>

\* C8, as stated: a feature whose clamped window is empty contributes 0.
C8_EmptyWindowContributesZero ==
    \A p \in ParserIds :
        ReturnedAny(p) =>
            \A i \in 1..Len(result[p].contrib) : \A k \in 1..Len(DocWindows) :
                EmptyWindow(result[p].sentence, i, k) => result[p].contrib[i][k] = 0

\* C8, amended: a feature whose clamped window is empty is looked up with
\* the empty string; it contributes the weight the table gives the empty
\* string in the feature's group, and 0 when the group has no such key.
C8_EmptyWindowLooksUpEmptyString ==
    \A p \in ParserIds :
        ReturnedAny(p) =>
            \A i \in 1..Len(result[p].contrib) : \A k \in 1..Len(DocWindows) :
                EmptyWindow(result[p].sentence, i, k) =>
                    result[p].contrib[i][k] = W(parsers[p].model, DocWindows[k][1], <<>>)

C8_Witness ==
    \E p \in ParserIds :
        /\ ReturnedAny(p)
        /\ \E i \in 1..Len(result[p].contrib) : \E k \in 1..Len(DocWindows) :
              /\ EmptyWindow(result[p].sentence, i, k)
              /\ result[p].contrib[i][k] # 0

\* C9: a bigram or trigram feature whose window an end of the sentence cuts
\* is looked up with the characters that are left, when some are; so the
\* table {"BW1": {"a": 10}} gives "ab" a boundary at 1.
C9_CutWindowLooksUpTheRest ==
    \A p \in ParserIds :
        ReturnedAny(p) =>
            /\ \A i \in 1..Len(result[p].contrib) : \A k \in 1..Len(DocWindows) :
                  (DocWindows[k][3] - DocWindows[k][2] >= 2
                      /\ CutWindow(result[p].sentence, i, k)
                      /\ ~EmptyWindow(result[p].sentence, i, k)) =>
                      result[p].contrib[i][k] =
                          W(parsers[p].model, DocWindows[k][1],
                            CharsIn(result[p].sentence, ClampedLo(result[p].sentence, i, k),
                                    ClampedHi(result[p].sentence, i, k)))
            /\ (parsers[p].model = ModelOf({<<"BW1", <<97>>, 10>>})
                    /\ result[p].sentence = Encode(<<97, 98>>)) => result[p].boundaries = <<1>>

C9_Witness ==
    \E p \in ParserIds :
        /\ Returned(p, "parse_boundaries")
        /\ parsers[p].model = ModelOf({<<"BW1", <<97>>, 10>>})
        /\ result[p].sentence = Encode(<<97, 98>>)
        /\ result[p].contrib[1][7] = 10
        /\ result[p].contrib[1][10] = 0
        /\ result[p].boundaries = <<1>>

\* C10: substring never panics; it returns the empty string when start is at
\* or past end or at or past the number of characters, and otherwise the
\* characters in [start, min(end, number of characters)).
C10_SubstringTotal ==
    sub.called =>
        /\ sub.ok
        /\ sub.val = IF sub.start >= sub.end \/ sub.start >= NumChars(sub.s) THEN <<>>
                     ELSE CharsIn(sub.s, sub.start, Min(sub.end, NumChars(sub.s)))

\* The same for start at or before end, which the code satisfies.
SubstringOfOrderedIndices ==
    (sub.called /\ sub.start <= sub.end) =>
        /\ sub.ok
        /\ sub.val = IF sub.start >= NumChars(sub.s) THEN <<>>
                     ELSE CharsIn(sub.s, sub.start, Min(sub.end, NumChars(sub.s)))

====
